---- MODULE Spec2Model ----
(***************************************************************************)
(* Model of photo-slider (main.go): one run of the generator is the linear *)
(* pipeline readConfig -> images folder check -> findImages -> shuffle ->  *)
(* parseAuthorTitle -> writeHTML, over a working directory holding         *)
(* photo-slider.config, images/ and photo.html.                            *)
(*                                                                         *)
(* Text is a sequence of one-character strings.  Config file text is a     *)
(* sequence of tokens in which "\n", " ", "\t", "\r", "=" and "#" are      *)
(* always tokens of their own and every other token is a maximal run of    *)
(* other characters, so equal texts are equal sequences.                   *)
(***************************************************************************)
EXTENDS Integers, Sequences, FiniteSets, TLC

VARIABLES
    pc,          \* position of the process in run() / of the function under study
    runs,        \* number of process invocations started so far
    cfgFile,     \* photo-slider.config: [exists, content]
    imagesDir,   \* images/: [exists, entries]
    htmlFile,    \* photo.html: [state, doc]
    cfg,         \* the config record held by run()
    lines,       \* readConfig: lines of the file not yet parsed
    entries,     \* findImages: the listing os.ReadDir returned
    images,      \* run(): the discovered paths, shuffled in place
    metas,       \* run(): the []imageMeta handed to writeHTML
    buffered,    \* writeHTML: everything passed to mustWrite so far
    exitCode,    \* process exit status, meaningful once pc = "exit"
    stderr,      \* TRUE once an error message was written to stderr
    failed,      \* I/O steps that failed in this run
    hist,        \* what the run started from and which stages it passed
    filename,    \* parseAuthorTitle: argument
    author,      \* parseAuthorTitle: first result
    title        \* parseAuthorTitle: second result

vars == <<pc, runs, cfgFile, imagesDir, htmlFile, cfg, lines, entries, images,
          metas, buffered, exitCode, stderr, failed, hist, filename, author, title>>

-----------------------------------------------------------------------------
(* Bounds *)

MaxNameLen == 4
MaxEntries == 5
MaxRuns == 2
MaxCfgLines == 2

-----------------------------------------------------------------------------
(* package strings *)

Range(s) == {s[i] : i \in 1..Len(s)}

White == {" ", "\t", "\r", "\n"}

Contains(s, c) == c \in Range(s)

\* index of the first occurrence of c in s, 0 when there is none
Index(s, c) ==
    IF Contains(s, c) THEN CHOOSE i \in 1..Len(s) : s[i] = c /\ \A j \in 1..(i-1) : s[j] # c
    ELSE 0

\* index of the last occurrence of c in s, 0 when there is none
LastIndex(s, c) ==
    IF Contains(s, c) THEN CHOOSE i \in 1..Len(s) : s[i] = c /\ \A j \in (i+1)..Len(s) : s[j] # c
    ELSE 0

RECURSIVE TrimLeft(_)
TrimLeft(s) == IF s # <<>> /\ Head(s) \in White THEN TrimLeft(Tail(s)) ELSE s

RECURSIVE TrimRight(_)
TrimRight(s) ==
    IF s # <<>> /\ s[Len(s)] \in White THEN TrimRight(SubSeq(s, 1, Len(s) - 1)) ELSE s

TrimSpace(s) == TrimRight(TrimLeft(s))

\* strings.Replace(s, old, new, -1) for a one-character old
RECURSIVE Replace(_, _, _)
Replace(s, old, new) ==
    IF s = <<>> THEN <<>>
    ELSE (IF Head(s) = old THEN new ELSE <<Head(s)>>) \o Replace(Tail(s), old, new)

\* strings.SplitN(s, sep, 2) for a one-character sep
SplitN2(s, sep) ==
    LET i == Index(s, sep)
    IN  IF i = 0 THEN <<s>> ELSE <<SubSeq(s, 1, i - 1), SubSeq(s, i + 1, Len(s))>>

\* strings.Split(s, sep) for a one-character sep
RECURSIVE Split(_, _)
Split(s, sep) ==
    LET i == Index(s, sep)
    IN  IF i = 0 THEN <<s>> ELSE <<SubSeq(s, 1, i - 1)>> \o Split(SubSeq(s, i + 1, Len(s)), sep)

HasPrefix(s, c) == s # <<>> /\ Head(s) = c

-----------------------------------------------------------------------------
(* parseAuthorTitle *)

BreakMarker == <<"<", "b", "r", ">">>

\* splitting on every "-" and keeping the second part only as the title
parseAuthorTitleSplitAll(name) ==
    IF Contains(name, "-")
    THEN LET parts == Split(name, "-")
             repAuthor == Replace(TrimSpace(parts[1]), "%", BreakMarker)
             repTitle == Replace(TrimSpace(parts[2]), "%", BreakMarker)
         IN  <<TrimSpace(repAuthor), TrimSpace(repTitle)>>
    ELSE <<<<>>, Replace(name, "%", BreakMarker)>>

\* trimming the title of a name without "-" as well
parseAuthorTitleTrimsPlain(name) ==
    IF Contains(name, "-")
    THEN LET parts == SplitN2(name, "-")
             repAuthor == Replace(TrimSpace(parts[1]), "%", BreakMarker)
             repTitle == Replace(TrimSpace(parts[2]), "%", BreakMarker)
         IN  <<TrimSpace(repAuthor), TrimSpace(repTitle)>>
    ELSE <<<<>>, TrimSpace(Replace(name, "%", BreakMarker))>>

parseAuthorTitle(name) ==
    IF Contains(name, "-")
    THEN LET parts == SplitN2(name, "-")
             rawAuthor == TrimSpace(parts[1])
             rawTitle == IF Len(parts) > 1 THEN TrimSpace(parts[2]) ELSE <<>>
             repAuthor == Replace(rawAuthor, "%", BreakMarker)
             repTitle == Replace(rawTitle, "%", BreakMarker)
         IN  <<TrimSpace(repAuthor), TrimSpace(repTitle)>>
    ELSE <<<<>>, Replace(name, "%", BreakMarker)>>

-----------------------------------------------------------------------------
(* readConfig, createDefaultConfig *)

Fields == {"includeAuthor", "authorTextColor", "authorStrokeColor", "titleTextColor",
           "titleStrokeColor", "imageBorderColor", "imageBorderStyle"}

\* the literal from which readConfig starts
DefaultConfig ==
    [includeAuthor     |-> TRUE,
     authorTextColor   |-> <<"#", "ffffff">>,
     authorStrokeColor |-> <<"#", "803128">>,
     titleTextColor    |-> <<"#", "ffffff">>,
     titleStrokeColor  |-> <<"#", "bd685e">>,
     imageBorderColor  |-> <<"#", "741d34">>,
     imageBorderStyle  |-> <<"dashed">>]

\* the text createDefaultConfig writes
DefaultContent ==
    <<"#", " ", "Photo", " ", "Slider", " ", "Configuration", "\n",
      "#", " ", "Set", " ", "include_author", " ", "to", " ", "true", " ", "to", " ", "show", " ", "author", " ", "names,", " ", "false", " ", "to", " ", "hide", " ", "them", "\n",
      "include_author", "=", "true", "\n",
      "\n",
      "#", " ", "Color", " ", "customization", " ", "(use", " ", "hex", " ", "color", " ", "codes", " ", "like", " ", "#", "ffffff)", "\n",
      "author_text_color", "=", "#", "ffffff", "\n",
      "author_stroke_color", "=", "#", "803128", "\n",
      "title_text_color", "=", "#", "ffffff", "\n",
      "title_stroke_color", "=", "#", "bd685e", "\n",
      "image_border_color", "=", "#", "741d34", "\n",
      "\n",
      "#", " ", "Border", " ", "style", " ", "options:", " ", "none,", " ", "solid,", " ", "dashed,", " ", "dotted,", " ", "double,", " ", "groove,", " ", "ridge,", " ", "inset,", " ", "outset", "\n",
      "image_border_style", "=", "dashed", "\n">>

\* a copy-and-paste slip in the switch: the title_stroke_color case assigns the author's stroke
SetFieldWrongCase(c, key, value) ==
    CASE key = <<"include_author">>      -> [c EXCEPT !.includeAuthor = (value = <<"true">>)]
      [] key = <<"author_text_color">>   -> [c EXCEPT !.authorTextColor = value]
      [] key = <<"author_stroke_color">> -> [c EXCEPT !.authorStrokeColor = value]
      [] key = <<"title_text_color">>    -> [c EXCEPT !.titleTextColor = value]
      [] key = <<"title_stroke_color">>  -> [c EXCEPT !.authorStrokeColor = value]
      [] key = <<"image_border_color">>  -> [c EXCEPT !.imageBorderColor = value]
      [] key = <<"image_border_style">>  -> [c EXCEPT !.imageBorderStyle = value]
      [] OTHER -> c

\* the switch on key
SetField(c, key, value) ==
    CASE key = <<"include_author">>      -> [c EXCEPT !.includeAuthor = (value = <<"true">>)]
      [] key = <<"author_text_color">>   -> [c EXCEPT !.authorTextColor = value]
      [] key = <<"author_stroke_color">> -> [c EXCEPT !.authorStrokeColor = value]
      [] key = <<"title_text_color">>    -> [c EXCEPT !.titleTextColor = value]
      [] key = <<"title_stroke_color">>  -> [c EXCEPT !.titleStrokeColor = value]
      [] key = <<"image_border_color">>  -> [c EXCEPT !.imageBorderColor = value]
      [] key = <<"image_border_style">>  -> [c EXCEPT !.imageBorderStyle = value]
      [] OTHER -> c

\* the body of the loop over the lines
ParseLine(c, raw) ==
    LET line == TrimSpace(raw)
    IN  IF line = <<>> \/ HasPrefix(line, "#") THEN c
        ELSE IF Contains(line, "=")
             THEN LET parts == SplitN2(line, "=")
                  IN  SetField(c, TrimSpace(parts[1]), TrimSpace(parts[2]))
             ELSE c

RECURSIVE ParseLines(_, _)
ParseLines(c, ls) == IF ls = <<>> THEN c ELSE ParseLines(ParseLine(c, Head(ls)), Tail(ls))

\* readConfig on an existing, readable file
ParseConfig(content) == ParseLines(DefaultConfig, Split(content, "\n"))

-----------------------------------------------------------------------------
(* package filepath, package html, fmt *)

imageFolder == <<"i", "m", "a", "g", "e", "s">>

Separator == "/"

\* filepath.Ext: the suffix beginning at the final dot, empty if there is no dot
Ext(name) ==
    LET i == LastIndex(name, ".")
    IN  IF i = 0 THEN <<>> ELSE SubSeq(name, i, Len(name))

\* filepath.Base of a path whose last element is not empty
Base(path) == SubSeq(path, LastIndex(path, Separator) + 1, Len(path))

\* filepath.Join(root, name) for a name that is a single path element
Join(root, name) == root \o <<Separator>> \o name

ToSlash(path) == [i \in 1..Len(path) |-> IF path[i] = Separator THEN "/" ELSE path[i]]

TrimSuffix(s, suffix) ==
    IF Len(suffix) <= Len(s) /\ SubSeq(s, Len(s) - Len(suffix) + 1, Len(s)) = suffix
    THEN SubSeq(s, 1, Len(s) - Len(suffix))
    ELSE s

\* strings.ToLower, on the letters the modelled names use in upper case
LowerChar(c) ==
    CASE c = "G" -> "g"
      [] c = "N" -> "n"
      [] c = "P" -> "p"
      [] OTHER -> c

ToLower(s) == [i \in 1..Len(s) |-> LowerChar(s[i])]

\* html.EscapeString
EscapeChar(c) ==
    CASE c = "&"  -> <<"&", "a", "m", "p", ";">>
      [] c = "<"  -> <<"&", "l", "t", ";">>
      [] c = ">"  -> <<"&", "g", "t", ";">>
      [] c = "\"" -> <<"&", "#", "3", "4", ";">>
      [] c = "'"  -> <<"&", "#", "3", "9", ";">>
      [] OTHER    -> <<c>>

RECURSIVE EscapeString(_)
EscapeString(s) == IF s = <<>> THEN <<>> ELSE EscapeChar(Head(s)) \o EscapeString(Tail(s))

\* fmt's %d of a number >= 0
RECURSIVE Itoa(_)
Itoa(n) ==
    LET digit == <<"0", "1", "2", "3", "4", "5", "6", "7", "8", "9">>[(n % 10) + 1]
    IN  IF n < 10 THEN <<digit>> ELSE Itoa(n \div 10) \o <<digit>>

-----------------------------------------------------------------------------
(* findImages *)

allowedExt ==
    {<<".", "j", "p", "g">>, <<".", "j", "p", "e", "g">>, <<".", "p", "n", "g">>,
     <<".", "g", "i", "f">>, <<".", "w", "e", "b", "p">>}

\* the characters of the modelled file names, in byte order
ByteOrder ==
    <<" ", "%", "&", "-", ".", "<", ">", "G", "N", "P", "a", "b", "c", "d", "e", "f",
      "g", "i", "j", "n", "p", "s", "t", "v", "w", "x">>

ByteRank(c) == CHOOSE i \in 1..Len(ByteOrder) : ByteOrder[i] = c

\* a < b as Go compares strings
RECURSIVE NameLess(_, _)
NameLess(a, b) ==
    IF b = <<>> THEN FALSE
    ELSE IF a = <<>> THEN TRUE
    ELSE IF Head(a) = Head(b) THEN NameLess(Tail(a), Tail(b))
    ELSE ByteRank(Head(a)) < ByteRank(Head(b))

\* os.ReadDir: the entries of the directory, sorted by file name
RECURSIVE ReadDir(_)
ReadDir(dir) ==
    IF dir = {} THEN <<>>
    ELSE LET first == CHOOSE e \in dir : \A o \in dir \ {e} : NameLess(e.name, o.name)
         IN  <<first>> \o ReadDir(dir \ {first})

\* the loop of findImages that forgets to skip directories
RECURSIVE findImagesKeepsDirs(_)
findImagesKeepsDirs(listing) ==
    IF listing = <<>> THEN <<>>
    ELSE LET e == Head(listing)
             rest == findImagesKeepsDirs(Tail(listing))
         IN  IF ToLower(Ext(e.name)) \notin allowedExt THEN rest
             ELSE <<Join(imageFolder, e.name)>> \o rest

\* the loop of findImages over the listing os.ReadDir returned
RECURSIVE findImages(_)
findImages(listing) ==
    IF listing = <<>> THEN <<>>
    ELSE LET e == Head(listing)
             rest == findImages(Tail(listing))
         IN  IF e.isDir THEN rest
             ELSE IF ToLower(Ext(e.name)) \notin allowedExt THEN rest
             ELSE <<Join(imageFolder, e.name)>> \o rest

-----------------------------------------------------------------------------
(* run: shuffle and metas *)

\* a swap that only assigns images[i] = images[j]
ShufflesOverwrite(s) == {[s EXCEPT ![i] = s[j]] : i \in DOMAIN s, j \in DOMAIN s}

\* the outcomes of rand.Shuffle with a swapping callback: every permutation
Shuffles(s) ==
    IF s = <<>> THEN {<<>>}
    ELSE {[i \in 1..Len(s) |-> s[p[i]]] : p \in Permutations(1..Len(s))}

\* the imageMeta run() builds for one path
Meta(path) ==
    LET base == Base(path)
        name == TrimSuffix(base, Ext(base))
        at == parseAuthorTitle(name)
    IN  [relPath |-> ToSlash(path), author |-> at[1], title |-> at[2]]

Metas(paths) == [i \in 1..Len(paths) |-> Meta(paths[i])]

-----------------------------------------------------------------------------
(* writeHTML, writeImageContainer, mustWrite *)
(* The document is the sequence of the pieces handed to mustWrite: a piece *)
(* is [tag, text], text being what the piece interpolates; runs of fixed   *)
(* lines are one piece.                                                    *)

Piece(tag, text) == [tag |-> tag, text |-> text]

\* bytes of the fixed text of a piece
FixedBytes ==
    [head1 |-> 994, duration |-> 31, static2 |-> 664, outline |-> 24, static3 |-> 356,
     authorColor |-> 17, authorStroke |-> 36, static4 |-> 166, titleColor |-> 17,
     titleStroke |-> 36, static5 |-> 254, open1 |-> 35, close |-> 13, open2 |-> 45,
     tail |-> 29, copen |-> 38, img |-> 40, capopen |-> 32, author |-> 39,
     title |-> 38, capclose |-> 17, cclose |-> 15]

\* bytes of a token: the words of the modelled config values, else one character
TokenBytes(t) ==
    CASE t \in {"ffffff", "803128", "bd685e", "741d34", "000000", "dashed"} -> 6
      [] t = "solid" -> 5
      [] OTHER -> 1

TextBytes(text) ==
    LET RECURSIVE Sum(_)
        Sum(i) == IF i > Len(text) THEN 0 ELSE TokenBytes(text[i]) + Sum(i + 1)
    IN  Sum(1)

PieceBytes(piece) == FixedBytes[piece.tag] + TextBytes(piece.text)

DocBytes(doc) ==
    LET RECURSIVE Sum(_)
        Sum(i) == IF i > Len(doc) THEN 0 ELSE PieceBytes(doc[i]) + Sum(i + 1)
    IN  Sum(1)

\* the container with the author line written whatever include_author says
writeImageContainerAlways(m, c) ==
    <<Piece("copen", <<>>),
      Piece("img", EscapeString(ToSlash(m.relPath))),
      Piece("capopen", <<>>),
      Piece("author", m.author),
      Piece("title", m.title),
      Piece("capclose", <<>>),
      Piece("cclose", <<>>)>>

writeImageContainer(m, c) ==
    <<Piece("copen", <<>>),
      Piece("img", EscapeString(ToSlash(m.relPath))),
      Piece("capopen", <<>>)>>
    \o (IF c.includeAuthor THEN <<Piece("author", m.author)>> ELSE <<>>)
    \o <<Piece("title", m.title),
         Piece("capclose", <<>>),
         Piece("cclose", <<>>)>>

\* for _, m := range metas { writeImageContainer(w, m, cfg) }
RECURSIVE Containers(_, _)
Containers(ms, c) ==
    IF ms = <<>> THEN <<>> ELSE writeImageContainer(Head(ms), c) \o Containers(Tail(ms), c)

\* everything writeHTML hands to mustWrite, in order
writeHTML(ms, c) ==
    <<Piece("head1", <<>>),
      Piece("duration", Itoa(Len(ms) * 5)),
      Piece("static2", <<>>),
      Piece("outline", c.imageBorderStyle \o <<" ">> \o c.imageBorderColor),
      Piece("static3", <<>>),
      Piece("authorColor", c.authorTextColor),
      Piece("authorStroke", c.authorStrokeColor),
      Piece("static4", <<>>),
      Piece("titleColor", c.titleTextColor),
      Piece("titleStroke", c.titleStrokeColor),
      Piece("static5", <<>>),
      Piece("open1", <<>>)>>
    \o Containers(ms, c)
    \o <<Piece("close", <<>>), Piece("open2", <<>>)>>
    \o Containers(ms, c)
    \o <<Piece("close", <<>>), Piece("tail", <<>>)>>

\* size of bufio.NewWriter's buffer
BufSize == 4096

\* how often the buffer fills and is written to the file before Flush is called
Spills(doc) == IF doc = <<>> THEN 0 ELSE (DocBytes(doc) - 1) \div BufSize

\* the whole pieces among the first n bytes of doc
Written(doc, n) ==
    LET RECURSIVE Fit(_, _)
        Fit(i, room) ==
            IF i > Len(doc) \/ PieceBytes(doc[i]) > room THEN i - 1
            ELSE Fit(i + 1, room - PieceBytes(doc[i]))
    IN  SubSeq(doc, 1, Fit(1, n))

-----------------------------------------------------------------------------
(* The working directory a run can start from *)

File(name) == [name |-> name, isDir |-> FALSE]
Dir(name) == [name |-> name, isDir |-> TRUE]

\* what images/ may hold: four images, three other files, one subdirectory
EntryPool ==
    {File(<<"j", " ", "-", " ", "s", ".", "j", "p", "g">>),
     File(<<"c", "%", "v", ".", "P", "N", "G">>),
     File(<<"&", "-", "<", ".", "g", "i", "f">>),
     File(<<".", "w", "e", "b", "p">>),
     File(<<"a", "-", "b", ".", "j", "p", "e", "g", ".", "b">>),
     File(<<"n", ".", "t", "x", "t">>),
     File(<<"j", "p", "g">>),
     Dir(<<"d", ".", "p", "n", "g">>)}

\* a config file a user edited: no author line, solid border
EditedContent ==
    <<"include_author", "=", "false", "\n",
      "image_border_style", " ", "=", " ", "solid", "\r", "\n",
      "title_text_color", "=", "#", "000000">>

NoFile == [exists |-> FALSE, content |-> <<>>]
TextFile(content) == [exists |-> TRUE, content |-> content]

NoDir == [exists |-> FALSE, entries |-> {}]
Folder(es) == [exists |-> TRUE, entries |-> es]

NoDoc == [exists |-> FALSE, doc |-> <<>>]
DocFile(doc) == [exists |-> TRUE, doc |-> doc]

\* the photo.html an earlier run over an empty images/ left behind
OldDoc == writeHTML(<<>>, DefaultConfig)

History(html, dirExisted, cfgExisted) ==
    [html0 |-> html, dirExisted |-> dirExisted, cfgExisted |-> cfgExisted,
     passed |-> {}, found |-> <<>>]

Init ==
    /\ pc = "readConfig"
    /\ runs = 1
    /\ cfgFile \in {NoFile, TextFile(DefaultContent), TextFile(EditedContent)}
    /\ imagesDir \in {NoDir} \cup
                     {Folder(es) : es \in {S \in SUBSET EntryPool : Cardinality(S) <= MaxEntries}}
    /\ htmlFile \in {NoDoc, DocFile(OldDoc)}
    /\ cfg = DefaultConfig
    /\ lines = <<>>
    /\ entries = <<>>
    /\ images = <<>>
    /\ metas = <<>>
    /\ buffered = <<>>
    /\ exitCode = 0
    /\ stderr = FALSE
    /\ failed = {}
    /\ hist = History(htmlFile, imagesDir.exists, cfgFile.exists)
    /\ filename = <<>>
    /\ author = <<>>
    /\ title = <<>>

-----------------------------------------------------------------------------
(* main and run *)

\* main: run returned err; the error goes to stderr and the process exits 1
ExitError(step) ==
    /\ pc' = "exit"
    /\ exitCode' = 1
    /\ stderr' = TRUE
    /\ failed' = failed \cup {step}

\* main: run returned nil
ExitOk ==
    /\ pc' = "exit"
    /\ exitCode' = 0
    /\ UNCHANGED <<stderr, failed>>

Pass(stage, next) ==
    /\ pc' = next
    /\ hist' = [hist EXCEPT !.passed = @ \cup {stage}]
    /\ UNCHANGED <<exitCode, stderr, failed>>

\* readConfig, no config file: createDefaultConfig writes it, the defaults are returned
RunReadConfigCreate ==
    /\ pc = "readConfig"
    /\ ~cfgFile.exists
    /\ cfgFile' = TextFile(DefaultContent)
    /\ cfg' = DefaultConfig
    /\ Pass("readConfig", "statFolder")
    /\ UNCHANGED <<runs, imagesDir, htmlFile, lines, entries, images, metas, buffered,
                   filename, author, title>>

\* readConfig, no config file: os.WriteFile fails, having created the file or not
RunReadConfigCreateFail ==
    /\ pc = "readConfig"
    /\ ~cfgFile.exists
    /\ cfgFile' \in {NoFile, TextFile(<<>>)}
    /\ ExitError("config-write")
    /\ UNCHANGED <<runs, imagesDir, htmlFile, cfg, lines, entries, images, metas, buffered,
                   hist, filename, author, title>>

\* readConfig, the file exists and is read: the defaults overridden line by line
RunReadConfigParse ==
    /\ pc = "readConfig"
    /\ cfgFile.exists
    /\ cfg' = ParseConfig(cfgFile.content)
    /\ Pass("readConfig", "statFolder")
    /\ UNCHANGED <<runs, cfgFile, imagesDir, htmlFile, lines, entries, images, metas,
                   buffered, filename, author, title>>

\* readConfig, the file exists and os.ReadFile fails
RunReadConfigReadFail ==
    /\ pc = "readConfig"
    /\ cfgFile.exists
    /\ ExitError("config-read")
    /\ UNCHANGED <<runs, cfgFile, imagesDir, htmlFile, cfg, lines, entries, images, metas,
                   buffered, hist, filename, author, title>>

\* a run that creates the folder and then goes on to discovery instead of returning
EnsureFolderCreateGoesOn ==
    /\ pc = "statFolder"
    /\ ~imagesDir.exists
    /\ imagesDir' = Folder({})
    /\ Pass("statFolder", "findImages")
    /\ UNCHANGED <<runs, cfgFile, htmlFile, cfg, lines, entries, images, metas, buffered,
                   filename, author, title>>

\* images/ is missing: os.MkdirAll creates it, guidance is printed, run returns nil
EnsureFolderCreate ==
    /\ pc = "statFolder"
    /\ ~imagesDir.exists
    /\ imagesDir' = Folder({})
    /\ ExitOk
    /\ UNCHANGED <<runs, cfgFile, htmlFile, cfg, lines, entries, images, metas, buffered,
                   hist, filename, author, title>>

\* images/ is missing and os.MkdirAll fails
EnsureFolderCreateFail ==
    /\ pc = "statFolder"
    /\ ~imagesDir.exists
    /\ ExitError("mkdir")
    /\ UNCHANGED <<runs, cfgFile, imagesDir, htmlFile, cfg, lines, entries, images, metas,
                   buffered, hist, filename, author, title>>

\* the folder check with the output file opened before discovery
EnsureFolderExistsOpensOutput ==
    /\ pc = "statFolder"
    /\ imagesDir.exists
    /\ htmlFile' = DocFile(<<>>)
    /\ Pass("statFolder", "findImages")
    /\ UNCHANGED <<runs, cfgFile, imagesDir, cfg, lines, entries, images, metas,
                   buffered, filename, author, title>>

\* images/ exists: on to discovery
EnsureFolderExists ==
    /\ pc = "statFolder"
    /\ imagesDir.exists
    /\ Pass("statFolder", "findImages")
    /\ UNCHANGED <<runs, cfgFile, imagesDir, htmlFile, cfg, lines, entries, images, metas,
                   buffered, filename, author, title>>

\* findImages: os.ReadDir succeeds
FindImagesOk ==
    /\ pc = "findImages"
    /\ entries' = ReadDir(imagesDir.entries)
    /\ images' = findImages(entries')
    /\ pc' = "shuffle"
    /\ hist' = [hist EXCEPT !.passed = @ \cup {"findImages"}, !.found = images']
    /\ UNCHANGED <<runs, cfgFile, imagesDir, htmlFile, cfg, lines, metas, buffered,
                   exitCode, stderr, failed, filename, author, title>>

\* findImages: os.ReadDir fails
FindImagesFail ==
    /\ pc = "findImages"
    /\ ExitError("readdir")
    /\ UNCHANGED <<runs, cfgFile, imagesDir, htmlFile, cfg, lines, entries, images, metas,
                   buffered, hist, filename, author, title>>

\* rand.Shuffle, then one imageMeta per path in the shuffled order
ShuffleAndParse ==
    /\ pc = "shuffle"
    /\ \E s \in Shuffles(images) :
          /\ images' = s
          /\ metas' = Metas(s)
    /\ Pass("shuffle", "create")
    /\ UNCHANGED <<runs, cfgFile, imagesDir, htmlFile, cfg, lines, entries, buffered,
                   filename, author, title>>

\* writeHTML: os.Create creates or truncates photo.html
CreateOutputOk ==
    /\ pc = "create"
    /\ htmlFile' = DocFile(<<>>)
    /\ Pass("create", "write")
    /\ UNCHANGED <<runs, cfgFile, imagesDir, cfg, lines, entries, images, metas, buffered,
                   filename, author, title>>

\* writeHTML: os.Create fails
CreateOutputFail ==
    /\ pc = "create"
    /\ ExitError("create")
    /\ UNCHANGED <<runs, cfgFile, imagesDir, htmlFile, cfg, lines, entries, images, metas,
                   buffered, hist, filename, author, title>>

\* writeHTML: every mustWrite succeeds; full buffers have gone to the file
EmitOk ==
    /\ pc = "write"
    /\ buffered' = writeHTML(metas, cfg)
    /\ htmlFile' = DocFile(Written(buffered', Spills(buffered') * BufSize))
    /\ Pass("write", "flush")
    /\ UNCHANGED <<runs, cfgFile, imagesDir, cfg, lines, entries, images, metas,
                   filename, author, title>>

\* mustWrite: the k-th write of a full buffer fails, WriteString returns the error
\* and mustWrite panics: the runtime prints the panic and exits with status 2
EmitPanic ==
    /\ pc = "write"
    /\ \E k \in 1..Spills(writeHTML(metas, cfg)) :
          /\ buffered' = Written(writeHTML(metas, cfg), k * BufSize)
          /\ htmlFile' = DocFile(Written(writeHTML(metas, cfg), (k - 1) * BufSize))
    /\ pc' = "exit"
    /\ exitCode' = 2
    /\ stderr' = TRUE
    /\ failed' = failed \cup {"write"}
    /\ UNCHANGED <<runs, cfgFile, imagesDir, cfg, lines, entries, images, metas, hist,
                   filename, author, title>>

\* writeHTML: w.Flush succeeds, the file holds the whole document, run returns nil
FlushOk ==
    /\ pc = "flush"
    /\ htmlFile' = DocFile(buffered)
    /\ hist' = [hist EXCEPT !.passed = @ \cup {"writeHTML"}]
    /\ ExitOk
    /\ UNCHANGED <<runs, cfgFile, imagesDir, cfg, lines, entries, images, metas, buffered,
                   filename, author, title>>

\* writeHTML: w.Flush fails
FlushFail ==
    /\ pc = "flush"
    /\ ExitError("flush")
    /\ UNCHANGED <<runs, cfgFile, imagesDir, htmlFile, cfg, lines, entries, images, metas,
                   buffered, hist, filename, author, title>>

Next ==
    \/ RunReadConfigCreate
    \/ RunReadConfigCreateFail
    \/ RunReadConfigParse
    \/ RunReadConfigReadFail
    \/ EnsureFolderCreate
    \/ EnsureFolderCreateFail
    \/ EnsureFolderExists
    \/ FindImagesOk
    \/ FindImagesFail
    \/ ShuffleAndParse
    \/ CreateOutputOk
    \/ CreateOutputFail
    \/ EmitOk
    \/ EmitPanic
    \/ FlushOk
    \/ FlushFail

Spec == Init /\ [][Next]_vars

-----------------------------------------------------------------------------
(* parseAuthorTitle on its own: every name of up to MaxNameLen characters *)

NameChars == {"a", " ", "\t", "%", "-"}

Names == UNION {[1..n -> NameChars] : n \in 0..MaxNameLen}

InitParse ==
    /\ pc = "parse"
    /\ filename \in Names
    /\ author = <<>>
    /\ title = <<>>
    /\ runs = 1
    /\ cfgFile = NoFile
    /\ imagesDir = NoDir
    /\ htmlFile = NoDoc
    /\ cfg = DefaultConfig
    /\ lines = <<>>
    /\ entries = <<>>
    /\ images = <<>>
    /\ metas = <<>>
    /\ buffered = <<>>
    /\ exitCode = 0
    /\ stderr = FALSE
    /\ failed = {}
    /\ hist = History(NoDoc, FALSE, FALSE)

CallParseAuthorTitle ==
    /\ pc = "parse"
    /\ author' = parseAuthorTitle(filename)[1]
    /\ title' = parseAuthorTitle(filename)[2]
    /\ pc' = "parsed"
    /\ UNCHANGED <<runs, cfgFile, imagesDir, htmlFile, cfg, lines, entries, images, metas,
                   buffered, exitCode, stderr, failed, hist, filename>>

NextParse == CallParseAuthorTitle

SpecParse == InitParse /\ [][NextParse]_vars

-----------------------------------------------------------------------------
(* readConfig on its own, line by line, called up to MaxRuns times over the *)
(* same working directory                                                   *)

ConfigLines ==
    {<<>>,
     <<" ", "\t">>,
     <<"#", " ", "include_author", "=", "false">>,
     <<" ", "#", "image_border_style", "=", "solid">>,
     <<"include_author">>,
     <<"colour", "=", "red">>,
     <<"Include_Author", "=", "false">>,
     <<"=", "false">>,
     <<"include_author", "=", "true">>,
     <<"include_author", "=", "false">>,
     <<"include_author", "=", "TRUE">>,
     <<" ", "include_author", " ", "=", " ", "true", "\r">>,
     <<"include_author", "=", "true", " ", "#", " ", "shown">>,
     <<"author_text_color", "=", "#", "000000">>,
     <<"author_stroke_color", "=", "red">>,
     <<"title_text_color", "=">>,
     <<"title_stroke_color", "=", "a", "=", "b">>,
     <<"image_border_color", "=", "#", "ffff00", " ">>,
     <<"image_border_style", "\t", "=", "solid">>}

RECURSIVE JoinLines(_)
JoinLines(ls) ==
    IF ls = <<>> THEN <<>>
    ELSE IF Len(ls) = 1 THEN ls[1]
    ELSE ls[1] \o <<"\n">> \o JoinLines(Tail(ls))

ConfigContents ==
    {DefaultContent} \cup
    {JoinLines(ls) : ls \in UNION {[1..n -> ConfigLines] : n \in 0..MaxCfgLines}}

InitConfig ==
    /\ pc = "readConfig"
    /\ runs = 1
    /\ cfgFile \in {NoFile} \cup {TextFile(c) : c \in ConfigContents}
    /\ cfg = DefaultConfig
    /\ lines = <<>>
    /\ failed = {}
    /\ hist = History(NoDoc, FALSE, cfgFile.exists)
    /\ imagesDir = NoDir
    /\ htmlFile = NoDoc
    /\ entries = <<>>
    /\ images = <<>>
    /\ metas = <<>>
    /\ buffered = <<>>
    /\ exitCode = 0
    /\ stderr = FALSE
    /\ filename = <<>>
    /\ author = <<>>
    /\ title = <<>>

\* no config file: createDefaultConfig writes it and the defaults are returned
readConfigCreate ==
    /\ pc = "readConfig"
    /\ ~cfgFile.exists
    /\ cfgFile' = TextFile(DefaultContent)
    /\ cfg' = DefaultConfig
    /\ pc' = "returned"
    /\ hist' = [hist EXCEPT !.passed = @ \cup {"created"}]
    /\ UNCHANGED <<runs, imagesDir, htmlFile, lines, entries, images, metas, buffered,
                   exitCode, stderr, failed, filename, author, title>>

\* no config file and os.WriteFile fails: the defaults are returned with an error
readConfigCreateFail ==
    /\ pc = "readConfig"
    /\ ~cfgFile.exists
    /\ cfgFile' \in {NoFile, TextFile(<<>>)}
    /\ cfg' = DefaultConfig
    /\ pc' = "error"
    /\ failed' = failed \cup {"config-write"}
    /\ UNCHANGED <<runs, imagesDir, htmlFile, lines, entries, images, metas, buffered,
                   exitCode, stderr, hist, filename, author, title>>

\* the file exists: os.ReadFile succeeds and the content is split into lines
readConfigRead ==
    /\ pc = "readConfig"
    /\ cfgFile.exists
    /\ cfg' = DefaultConfig
    /\ lines' = Split(cfgFile.content, "\n")
    /\ pc' = "parsing"
    /\ UNCHANGED <<runs, cfgFile, imagesDir, htmlFile, entries, images, metas, buffered,
                   exitCode, stderr, failed, hist, filename, author, title>>

\* the file exists and os.ReadFile fails
readConfigReadFail ==
    /\ pc = "readConfig"
    /\ cfgFile.exists
    /\ cfg' = DefaultConfig
    /\ pc' = "error"
    /\ failed' = failed \cup {"config-read"}
    /\ UNCHANGED <<runs, cfgFile, imagesDir, htmlFile, lines, entries, images, metas,
                   buffered, exitCode, stderr, hist, filename, author, title>>

\* one iteration of the loop over the lines
readConfigLine ==
    /\ pc = "parsing"
    /\ lines # <<>>
    /\ cfg' = ParseLine(cfg, Head(lines))
    /\ lines' = Tail(lines)
    /\ UNCHANGED <<pc, runs, cfgFile, imagesDir, htmlFile, entries, images, metas, buffered,
                   exitCode, stderr, failed, hist, filename, author, title>>

\* the loop is over: return cfg, nil
readConfigReturn ==
    /\ pc = "parsing"
    /\ lines = <<>>
    /\ pc' = "returned"
    /\ hist' = [hist EXCEPT !.passed = @ \cup {"parsed"}]
    /\ UNCHANGED <<runs, cfgFile, imagesDir, htmlFile, cfg, lines, entries, images, metas,
                   buffered, exitCode, stderr, failed, filename, author, title>>

\* the next run of the program calls readConfig again
readConfigAgain ==
    /\ pc \in {"returned", "error"}
    /\ runs < MaxRuns
    /\ runs' = runs + 1
    /\ pc' = "readConfig"
    /\ failed' = {}
    /\ hist' = [hist EXCEPT !.passed = @ \cap {"created"}]
    /\ UNCHANGED <<cfgFile, imagesDir, htmlFile, cfg, lines, entries, images, metas,
                   buffered, exitCode, stderr, filename, author, title>>

NextConfig ==
    \/ readConfigCreate
    \/ readConfigCreateFail
    \/ readConfigRead
    \/ readConfigReadFail
    \/ readConfigLine
    \/ readConfigReturn
    \/ readConfigAgain

SpecConfig == InitConfig /\ [][NextConfig]_vars

-----------------------------------------------------------------------------
(* What the claims say, stated without the operators of the model *)

\* s without its leading and trailing whitespace
Stripped(s) ==
    LET solid == {i \in 1..Len(s) : s[i] \notin White}
    IN  IF solid = {} THEN <<>>
        ELSE SubSeq(s, CHOOSE i \in solid : \A j \in solid : i <= j,
                       CHOOSE i \in solid : \A j \in solid : j <= i)

\* s with each "%" turned into exactly one "<br>" and nothing else changed
WithBreaks(s) ==
    LET start(i) == i + 3 * Cardinality({j \in 1..(i - 1) : s[j] = "%"})
        n == start(Len(s) + 1) - 1
    IN  [k \in 1..n |->
            LET i == CHOOSE i \in 1..Len(s) : start(i) <= k /\ k < start(i + 1)
            IN  IF s[i] = "%" THEN <<"<", "b", "r", ">">>[k - start(i) + 1] ELSE s[i]]

FirstDash(s) == CHOOSE i \in 1..Len(s) : s[i] = "-" /\ \A j \in 1..(i - 1) : s[j] # "-"

\* C4: for a name containing "-", the author is the part before the first "-" and
\* the title everything after it, later "-" included, each trimmed and with every
\* "%" turned into one "<br>"; an empty or all-whitespace side gives the empty string.
C4_SplitOnFirstDash ==
    (pc = "parsed" /\ "-" \in Range(filename)) =>
        LET i == FirstDash(filename)
            left == SubSeq(filename, 1, i - 1)
            right == SubSeq(filename, i + 1, Len(filename))
        IN  /\ author = WithBreaks(Stripped(left))
            /\ title = WithBreaks(Stripped(right))
            /\ Range(left) \subseteq White => author = <<>>
            /\ Range(right) \subseteq White => title = <<>>

\* " %--" gives the author "<br>" and the title "-"
C4_Witness ==
    /\ pc = "parsed"
    /\ filename = <<" ", "%", "-", "-">>
    /\ author = <<"<", "b", "r", ">">>
    /\ title = <<"-">>

KeyOf(line) ==
    LET i == CHOOSE i \in 1..Len(line) : line[i] = "=" /\ \A j \in 1..(i - 1) : line[j] # "="
    IN  Stripped(SubSeq(line, 1, i - 1))

ValueOf(line) ==
    LET i == CHOOSE i \in 1..Len(line) : line[i] = "=" /\ \A j \in 1..(i - 1) : line[j] # "="
    IN  Stripped(SubSeq(line, i + 1, Len(line)))

\* the field each recognized key names
FieldOfKey ==
    [include_author |-> "includeAuthor", author_text_color |-> "authorTextColor",
     author_stroke_color |-> "authorStrokeColor", title_text_color |-> "titleTextColor",
     title_stroke_color |-> "titleStrokeColor", image_border_color |-> "imageBorderColor",
     image_border_style |-> "imageBorderStyle"]

\* blank, a comment, without "=", or with a key that is not one of the seven
Ignored(line) ==
    \/ Stripped(line) = <<>>
    \/ Stripped(line)[1] = "#"
    \/ "=" \notin Range(line)
    \/ Len(KeyOf(line)) # 1
    \/ KeyOf(line)[1] \notin DOMAIN FieldOfKey

\* C6: the config file being absent, readConfig writes the default file and returns
\* the defaults; a later readConfig that parses that file returns a config equal to
\* the built-in defaults in all seven fields.
C6_DefaultsRoundTrip ==
    ("created" \in hist.passed /\ pc = "returned") =>
        /\ runs = 1 => cfgFile = [exists |-> TRUE, content |-> DefaultContent]
        /\ \A f \in Fields : cfg[f] = DefaultConfig[f]

\* the second call has parsed the file the first call wrote
C6_Witness ==
    /\ pc = "returned"
    /\ runs = 2
    /\ ~hist.cfgExisted
    /\ {"created", "parsed"} \subseteq hist.passed
    /\ cfg.titleStrokeColor = <<"#", "bd685e">>

\* C7: parsing never ends readConfig with an error, and a line changes at most the
\* field its key names: an ignored line changes nothing, an include_author line
\* whose value is not the literal true sets include_author to false and nothing else.
C7_LineChangesOnlyItsField ==
    [][pc = "parsing" =>
          /\ pc' \in {"parsing", "returned"}
          /\ failed' = failed
          /\ lines' # lines =>
                LET line == Head(lines)
                IN  /\ Ignored(line) => cfg' = cfg
                    /\ ~Ignored(line) =>
                          /\ \A f \in Fields \ {FieldOfKey[KeyOf(line)[1]]} : cfg'[f] = cfg[f]
                          /\ KeyOf(line)[1] # "include_author" =>
                                cfg'[FieldOfKey[KeyOf(line)[1]]] = ValueOf(line)
                          /\ KeyOf(line)[1] = "include_author" =>
                                cfg'.includeAuthor = (ValueOf(line) = <<"true">>)]_vars

\* after include_author=TRUE the author line is off and the other six fields are
\* the defaults, and readConfig has returned without error
C7_Witness ==
    /\ pc = "returned"
    /\ failed = {}
    /\ cfgFile.exists
    /\ cfgFile.content = <<"title_stroke_color", "=", "a", "=", "b", "\n",
                           "include_author", "=", "TRUE">>
    /\ cfg = [DefaultConfig EXCEPT !.includeAuthor = FALSE,
                                   !.titleStrokeColor = <<"a", "=", "b">>]

\* the run started with images/ absent and readConfig succeeded
FirstRun == ~hist.dirExisted /\ "readConfig" \in hist.passed

\* C1 as stated: a run that starts without images/ (config loading succeeding)
\* creates the folder, discovers nothing, leaves photo.html alone and exits 0.
C1_AsStated ==
    FirstRun =>
        /\ "findImages" \notin hist.passed
        /\ htmlFile = hist.html0
        /\ pc = "exit" => (imagesDir.exists /\ exitCode = 0)

\* C1 amended: the same, provided os.MkdirAll succeeds; when it fails the run ends
\* with exit code 1 and no folder, still without discovery and without photo.html.
C1_FirstRunCreatesFolder ==
    FirstRun =>
        /\ "findImages" \notin hist.passed
        /\ entries = <<>>
        /\ htmlFile = hist.html0
        /\ (pc = "exit" /\ "mkdir" \notin failed) => (imagesDir = Folder({}) /\ exitCode = 0)
        /\ (pc = "exit" /\ "mkdir" \in failed) => (~imagesDir.exists /\ exitCode = 1)

\* the folder was created, the config file too, and no photo.html exists
C1_Witness ==
    /\ FirstRun
    /\ pc = "exit"
    /\ exitCode = 0
    /\ imagesDir = Folder({})
    /\ ~hist.cfgExisted /\ cfgFile.exists
    /\ ~htmlFile.exists

\* the tags of the pieces between the piece tagged open and the next "close"
Block(doc, open) ==
    LET a == CHOOSE i \in 1..Len(doc) : doc[i].tag = open
        b == CHOOSE i \in (a + 1)..Len(doc) :
                 doc[i].tag = "close" /\ \A j \in (a + 1)..(i - 1) : doc[j].tag # "close"
    IN  SubSeq(doc, a + 1, b - 1)

Sources(block) == SelectSeq(block, LAMBDA piece : piece.tag = "img")

Times(x, seq) == Cardinality({i \in 1..Len(seq) : seq[i] = x})

\* the src attribute writeImageContainer gives a discovered path
SrcOf(path) == [tag |-> "img", text |-> EscapeString(path)]

\* writeHTML returned nil
Generated == pc = "exit" /\ "writeHTML" \in hist.passed

\* C2: the written document holds each discovered image exactly twice: the
\* scroll-content block and the scroll-content-duplicate block each render the
\* whole shuffled list once, in the same order, nothing lost or added.
C2_EachImageTwice ==
    Generated =>
        LET first == Block(htmlFile.doc, "open1")
            second == Block(htmlFile.doc, "open2")
        IN  /\ first = second
            /\ Len(Sources(first)) = Len(hist.found)
            /\ \A i \in 1..Len(hist.found) :
                  /\ Times(SrcOf(hist.found[i]), Sources(first)) = 1
                  /\ Times(SrcOf(hist.found[i]), Sources(htmlFile.doc)) = 2
            /\ \A i \in 1..Len(images) : Sources(first)[i] = SrcOf(images[i])

\* four images written in an order other than the one findImages returned
C2_Witness ==
    /\ Generated
    /\ Len(hist.found) = 4
    /\ images # hist.found
    /\ Len(Sources(htmlFile.doc)) = 8

\* C3 as stated: every I/O failure ends the process with exit code 1 and a message
\* on stderr, and exit code 0 occurs only when no I/O step failed.
C3_AsStated ==
    pc = "exit" =>
        /\ failed # {} => (exitCode = 1 /\ stderr)
        /\ exitCode = 0 => failed = {}

\* the listing order of the kept entries: the j-th entry findImages keeps
Kept(listing) ==
    {i \in 1..Len(listing) :
        /\ ~listing[i].isDir
        /\ \E k \in 1..Len(listing[i].name) :
              /\ listing[i].name[k] = "."
              /\ \A m \in (k + 1)..Len(listing[i].name) : listing[i].name[m] # "."
              /\ [m \in 1..(Len(listing[i].name) - k + 1) |->
                     LowerChar(listing[i].name[k + m - 1])]
                 \in {<<".", "j", "p", "g">>, <<".", "j", "p", "e", "g">>,
                      <<".", "p", "n", "g">>, <<".", "g", "i", "f">>,
                      <<".", "w", "e", "b", "p">>}}

\* C8: findImages returns exactly the entries that are not directories and whose
\* lowercased extension is .jpg .jpeg .png .gif or .webp, each joined with the
\* folder name, in listing order.
C8_FindImagesFilters ==
    "findImages" \in hist.passed =>
        LET keep == Kept(entries)
            nth(j) == CHOOSE i \in keep : Cardinality({x \in keep : x < i}) = j - 1
        IN  /\ Range(entries) = imagesDir.entries
            /\ Len(hist.found) = Cardinality(keep)
            /\ \A j \in 1..Len(hist.found) :
                  hist.found[j] = <<"i", "m", "a", "g", "e", "s", "/">> \o entries[nth(j)].name

\* three images, two files of other extensions: exactly three paths
C8_Witness ==
    /\ "findImages" \in hist.passed
    /\ Len(entries) = 5
    /\ \A i \in 1..5 : ~entries[i].isDir
    /\ Cardinality(Kept(entries)) = 3
    /\ Len(hist.found) = 3
    /\ \E i \in 1..5 : entries[i].name = <<"c", "%", "v", ".", "P", "N", "G">>

\* the pieces of the i-th container of a block
Container(block, i, size) == SubSeq(block, (i - 1) * size + 1, i * size)

Tags(seq) == [i \in 1..Len(seq) |-> seq[i].tag]

\* C9: a container has the author line if and only if include_author is true, the
\* title line always follows; both carry the caption unescaped, the src is escaped.
C9_AuthorLineFollowsConfig ==
    Generated =>
        LET block == Block(htmlFile.doc, "open1")
            size == IF cfg.includeAuthor THEN 7 ELSE 6
        IN  /\ Len(block) = size * Len(metas)
            /\ \A i \in 1..Len(metas) :
                  LET c == Container(block, i, size)
                  IN  /\ Tags(c) = IF cfg.includeAuthor
                                   THEN <<"copen", "img", "capopen", "author", "title",
                                          "capclose", "cclose">>
                                   ELSE <<"copen", "img", "capopen", "title",
                                          "capclose", "cclose">>
                      /\ cfg.includeAuthor => c[4].text = metas[i].author
                      /\ c[size - 2].text = metas[i].title
                      /\ c[2].text = EscapeString(metas[i].relPath)

\* include_author=false: "&-<.gif" is written with the title "<" as it is and the
\* src escaped, and no author line
C9_Witness ==
    /\ Generated
    /\ ~cfg.includeAuthor
    /\ \E i \in 1..Len(htmlFile.doc) :
          /\ htmlFile.doc[i] =
                [tag |-> "img",
                 text |-> <<"i", "m", "a", "g", "e", "s", "/", "&", "a", "m", "p", ";", "-",
                            "&", "l", "t", ";", ".", "g", "i", "f">>]
          /\ htmlFile.doc[i + 2] = [tag |-> "title", text |-> <<"<">>]

\* C10: photo.html is created or truncated only after config loading, the folder
\* check and findImages succeeded in this run; otherwise the photo.html of an
\* earlier run is unchanged, though the config file may have been created.
C10_OutputOnlyAfterDiscovery ==
    ~({"readConfig", "statFolder", "findImages"} \subseteq hist.passed) =>
        htmlFile = hist.html0

\* discovery failed after the config file was created; the old photo.html is intact
C10_Witness ==
    /\ pc = "exit"
    /\ "readdir" \in failed
    /\ ~hist.cfgExisted /\ cfgFile.exists
    /\ htmlFile.exists /\ htmlFile = hist.html0

====
